---- MODULE Spec2Model ----
(***************************************************************************)
(* A model of the CodeCraft MCP server (src/server.js): the sandbox path   *)
(* resolver, the match engine behind smart_replace, the position resolver  *)
(* and splice of insert_lines, delete_lines, append_prepend_content, two   *)
(* mutating requests in flight together, and the text search engine of     *)
(* search_in_file and search_across_files.                                 *)
(*                                                                         *)
(* JavaScript strings are modelled as sequences of one-character strings,  *)
(* so that includes/replace/split/trim are computed character by character *)
(* as the engine computes them.                                            *)
(***************************************************************************)
EXTENDS Integers, Sequences, FiniteSets, TLC

VARIABLES
    dirExists,  \* does the parent directory of the target file exist
    fstat,      \* "ok" | "absent" | "denied": state of the target file
    fdata,      \* content of the target file (a string) when it exists
    pc,         \* "idle": waiting for a request; "done": a handler has returned
    req,        \* the request being served: its operation and arguments
    res,        \* what the handler returned or threw
    pre,        \* the filesystem as it was when the handler started
    tree,       \* the files at the top of the project directory and beside it
    tasks       \* the requests in flight side by side: task -> its position

vars == <<dirExists, fstat, fdata, pc, req, res, pre, tree, tasks>>

(***************************************************************************)
(* Bounds of the model.                                                    *)
(***************************************************************************)
MaxContent == 3     \* longest file content a request is served on
MaxOld == 3         \* longest old_code
MaxReplaceNew == 1  \* longest new_code
MaxNew == 1         \* longest inserted, appended or prepended content
MaxPattern == 1     \* longest anchor pattern
MaxOccurrence == 2  \* largest match_occurrence
MaxOffset == 1      \* largest |offset| of a relative_to position
MaxLineNo == 3      \* largest line number argument
MaxPath == 5        \* longest userPath given to the resolver
MaxBlock == 3       \* longest new_code of a block replace
MaxBlockOld == 2    \* longest old_code of a block replace
MaxSearch == 2      \* longest search_text
MaxContext == 1     \* largest context_lines
MaxMatches == 2     \* largest max_matches_per_file
MaxTreeContent == 2 \* longest content of a file at the top of the project directory
MaxCommand == 5     \* longest shell command line
MaxText == 4        \* longest content split into lines and joined again
MaxDollarNew == 2   \* longest new_code written with replacement-pattern characters

(***************************************************************************)
(* Characters.                                                             *)
(***************************************************************************)
NL == "\n"
WhiteSpace == {" ", "\n", "\t", "\r"}
FileChars == {"a", " ", "\n"}
PatternChars == {"a", " "}
PathChars == {"/", ".", "r", "e"}

RECURSIVE StringsUpTo(_, _)
StringsUpTo(chars, n) ==
    IF n = 0 THEN {<<>>}
    ELSE LET shorter == StringsUpTo(chars, n - 1)
         IN  shorter \cup {Append(s, c) : s \in {t \in shorter : Len(t) = n - 1}, c \in chars}

(***************************************************************************)
(* String primitives of the JavaScript runtime, as the code uses them.     *)
(***************************************************************************)
Drop(s, n) == SubSeq(s, n + 1, Len(s))

MatchAt(s, t, i) == i + Len(t) - 1 <= Len(s) /\ SubSeq(s, i, i + Len(t) - 1) = t

\* String.prototype.includes
Includes(s, t) == \E i \in 1..(Len(s) + 1) : MatchAt(s, t, i)

\* String.prototype.startsWith
StartsWith(s, t) == MatchAt(s, t, 1)

\* String.prototype.indexOf, 1-based; only used when Includes(s, t)
IndexOf(s, t) ==
    CHOOSE i \in 1..(Len(s) + 1) : MatchAt(s, t, i) /\ \A k \in 1..(i - 1) : ~MatchAt(s, t, k)

\* GetSubstitution for a string pattern (no capture groups): $$, $&, $`, $'
RECURSIVE GetSubstitution(_, _, _, _)
GetSubstitution(r, before, matched, after) ==
    IF r = <<>> THEN <<>>
    ELSE IF r[1] = "$" /\ Len(r) >= 2 /\ r[2] \in {"$", "&", "`", "'"}
         THEN (CASE r[2] = "$" -> <<"$">>
                 [] r[2] = "&" -> matched
                 [] r[2] = "`" -> before
                 [] r[2] = "'" -> after)
              \o GetSubstitution(Drop(r, 2), before, matched, after)
         ELSE <<r[1]>> \o GetSubstitution(Tail(r), before, matched, after)

\* String.prototype.replace(string, string): the first occurrence only
StrReplace(s, old, new) ==
    IF ~Includes(s, old) THEN s
    ELSE LET i == IndexOf(s, old)
             before == SubSeq(s, 1, i - 1)
             after == Drop(s, i + Len(old) - 1)
         IN  before \o GetSubstitution(new, before, old, after) \o after

\* String.prototype.split(sep) for a one-character separator
RECURSIVE SplitOn(_, _)
SplitOn(s, sep) ==
    IF ~Includes(s, <<sep>>) THEN <<s>>
    ELSE LET i == IndexOf(s, <<sep>>)
         IN  <<SubSeq(s, 1, i - 1)>> \o SplitOn(Drop(s, i), sep)

\* Array.prototype.join(sep)
RECURSIVE JoinWith(_, _)
JoinWith(ls, sep) ==
    IF ls = <<>> THEN <<>>
    ELSE IF Len(ls) = 1 THEN ls[1]
    ELSE ls[1] \o <<sep>> \o JoinWith(Tail(ls), sep)

\* content.split('\n') and lines.join('\n')
Split_NoEmptyTail(s) ==
    LET ls == SplitOn(s, NL)
    IN  IF Len(ls) > 1 /\ ls[Len(ls)] = <<>> THEN SubSeq(ls, 1, Len(ls) - 1) ELSE ls
Split(s) == SplitOn(s, NL)
Join(ls) == JoinWith(ls, NL)

RECURSIVE TrimStart(_)
TrimStart(s) == IF s # <<>> /\ s[1] \in WhiteSpace THEN TrimStart(Tail(s)) ELSE s

RECURSIVE TrimEnd(_)
TrimEnd(s) ==
    IF s # <<>> /\ s[Len(s)] \in WhiteSpace THEN TrimEnd(SubSeq(s, 1, Len(s) - 1)) ELSE s

\* String.prototype.trim
Trim(s) == TrimEnd(TrimStart(s))

\* line.match(/^(\s*)/)[1]
LeadingWS(s) == SubSeq(s, 1, Len(s) - Len(TrimStart(s)))

Min(a, b) == IF a < b THEN a ELSE b
Max(a, b) == IF a > b THEN a ELSE b

\* Array.prototype.splice(start, deleteCount, ...items): the array afterwards
Splice(arr, start, deleteCount, items) ==
    LET len == Len(arr)
        actualStart == IF start < 0 THEN Max(len + start, 0) ELSE Min(start, len)
        actualDelete == Min(Max(deleteCount, 0), len - actualStart)
    IN  SubSeq(arr, 1, actualStart) \o items \o Drop(arr, actualStart + actualDelete)

(***************************************************************************)
(* path.resolve and the sandbox check.                                     *)
(***************************************************************************)
\* SANDBOX_DIR = path.resolve(PROJECT_DIR || cwd): absolute and normalized
SANDBOX_DIR == <<"/", "r">>

\* path.resolve's normalization of the segments of an absolute path:
\* empty and "." segments vanish, ".." removes the segment before it
RECURSIVE NormalizeSegs(_, _)
NormalizeSegs(segs, acc) ==
    IF segs = <<>> THEN acc
    ELSE IF segs[1] = <<>> \/ segs[1] = <<".">> THEN NormalizeSegs(Tail(segs), acc)
    ELSE IF segs[1] = <<".", ".">>
         THEN NormalizeSegs(Tail(segs), IF acc = <<>> THEN acc ELSE SubSeq(acc, 1, Len(acc) - 1))
    ELSE NormalizeSegs(Tail(segs), Append(acc, segs[1]))

\* the normalized segments of an absolute path
PathSegments(p) == NormalizeSegs(SplitOn(p, "/"), <<>>)

\* path.resolve(root, userPath) on POSIX, root absolute
PathResolve(root, userPath) ==
    LET full == IF userPath # <<>> /\ userPath[1] = "/" THEN userPath
                ELSE IF userPath = <<>> THEN root
                ELSE root \o <<"/">> \o userPath
    IN  <<"/">> \o JoinWith(PathSegments(full), "/")

\* path.dirname of a resolved path
PathDirname(p) ==
    LET segs == PathSegments(p)
    IN  <<"/">> \o JoinWith(SubSeq(segs, 1, Len(segs) - 1), "/")

\* a resolver that admits only paths strictly below the root
ResolveSandboxPath_BelowOnly(userPath) ==
    LET resolvedPath == PathResolve(SANDBOX_DIR, userPath)
    IN  IF ~StartsWith(resolvedPath, SANDBOX_DIR \o <<"/">>)
        THEN [ok |-> FALSE, err |-> "security", path |-> <<>>]
        ELSE [ok |-> TRUE, err |-> "", path |-> resolvedPath]

\* _resolveSandboxPath: the resolved path, or the security error
ResolveSandboxPath(userPath) ==
    LET resolvedPath == PathResolve(SANDBOX_DIR, userPath)
    IN  IF ~StartsWith(resolvedPath, SANDBOX_DIR)
        THEN [ok |-> FALSE, err |-> "security", path |-> <<>>]
        ELSE [ok |-> TRUE, err |-> "", path |-> resolvedPath]

\* is path p the directory root or below it, component by component
IsWithin(p, root) ==
    LET ps == PathSegments(p)
        rs == PathSegments(root)
    IN  Len(rs) <= Len(ps) /\ SubSeq(ps, 1, Len(rs)) = rs

(***************************************************************************)
(* The filesystem the handlers act on: one file, TargetFile, in a          *)
(* directory below the sandbox root that may or may not exist yet.         *)
(***************************************************************************)
TargetPath == <<"d", "/", "f">>          \* file_path naming the file, relative to the root
OutsidePath == <<".", ".", "/", "o">>    \* file_path that leaves the root
TargetFile == PathResolve(SANDBOX_DIR, TargetPath)

NoReq == [op |-> "none"]
NoRes == [ok |-> TRUE, err |-> ""]

CurrentFs == [dir |-> dirExists, stat |-> fstat, data |-> fdata]

\* fs.readFile(path, 'utf8'): the content, or the error code it rejects with
ReadFile(fs, path) ==
    IF path = TargetFile /\ fs.stat = "ok" THEN [err |-> "", data |-> fs.data]
    ELSE IF path = TargetFile /\ fs.stat = "denied" THEN [err |-> "EACCES", data |-> <<>>]
    ELSE [err |-> "ENOENT", data |-> <<>>]

\* fs.writeFile(path, data, 'utf-8'): the filesystem afterwards, and the error if any
WriteFile(fs, path, data) ==
    IF path # TargetFile \/ ~fs.dir THEN [fs |-> fs, err |-> "ENOENT"]
    ELSE IF fs.stat = "denied" THEN [fs |-> fs, err |-> "EACCES"]
    ELSE [fs |-> [dir |-> TRUE, stat |-> "ok", data |-> data], err |-> ""]

\* fs.mkdir(path.dirname(path), {recursive: true}): the filesystem afterwards
MkdirParent(fs, path) ==
    IF PathDirname(path) = PathDirname(TargetFile) THEN [fs EXCEPT !.dir = TRUE] ELSE fs

\* a handler that throws: the filesystem as it leaves it, and the error
Throw(fs, e) == [fs |-> fs, res |-> [ok |-> FALSE, err |-> e]]

\* the files glob can list, in the order it lists them, by their path from
\* the project directory: two at its top and one beside it
TreeNames == <<<<"g">>, <<"h">>, <<".", ".", "/", "o">>>>

\* none of these files exists
NoTree == [n \in 1..Len(TreeNames) |-> [stat |-> "absent", data |-> <<>>]]

\* the tasks that can be in flight together
TaskIds == {1, 2}

NoFs == [dir |-> FALSE, stat |-> "absent", data |-> <<>>]

\* a task with no request
IdleTask == [pc |-> "idle", req |-> NoReq, seen |-> NoFs, prior |-> NoFs,
             wrote |-> <<>>, stale |-> FALSE, res |-> NoRes]

NoTasks == [t \in TaskIds |-> IdleTask]

(***************************************************************************)
(* smart_replace and its match engine.                                     *)
(***************************************************************************)
\* oldCode.trim().split('\n').map(l => l.trim())
OldLines(oldCode) ==
    LET raw == Split(Trim(oldCode))
    IN  [j \in 1..Len(raw) |-> Trim(raw[j])]

\* a matcher that stops comparing after the first line of the window
WindowMatches_FirstLineOnly(lines, oldLines, i) ==
    i + 1 <= Len(lines) /\ Trim(lines[i + 1]) = oldLines[1]

\* the inner loop of _performSmartMatch: do the lines at 0-based index i match
WindowMatches(lines, oldLines, i) ==
    \A j \in 1..Len(oldLines) : i + j <= Len(lines) /\ Trim(lines[i + j]) = oldLines[j]

\* replacement lines that keep their own whitespace behind the indent
ReindentNew_NoStrip(newCode, indent) ==
    LET nl == Split(newCode)
    IN  [k \in 1..Len(nl) |->
            IF k = 1 THEN nl[k]
            ELSE IF Trim(nl[k]) # <<>> THEN indent \o nl[k] ELSE nl[k]]

\* newCode.split('\n').map((line, idx) => ...): the replacement lines
ReindentNew(newCode, indent) ==
    LET nl == Split(newCode)
    IN  [k \in 1..Len(nl) |->
            IF k = 1 THEN nl[k]
            ELSE IF Trim(nl[k]) # <<>> THEN indent \o Trim(nl[k]) ELSE nl[k]]

\* the window indexes i of the outer loop at which the inner loop ends with match
WindowHits(lines, oldLines) ==
    {i \in 0..(Len(lines) - Len(oldLines)) : WindowMatches(lines, oldLines, i)}

\* "if (match)": the content with the window at i replaced by the new lines
ReplaceWindow(lines, oldLines, newCode, i) ==
    LET indent == LeadingWS(lines[i + 1])
        newLines == ReindentNew(newCode, indent)
    IN  Join(Splice(lines, i, Len(oldLines), newLines))

\* a line-window phase that keeps scanning and rewrites the last matching window
FuzzyMatch_LastWindow(content, oldCode, newCode) ==
    LET lines == Split(content)
        oldLines == OldLines(oldCode)
        hits == WindowHits(lines, oldLines)
    IN  IF hits = {} THEN [found |-> FALSE, text |-> <<>>]
        ELSE LET i == CHOOSE h \in hits : \A g \in hits : h >= g
             IN  [found |-> TRUE, text |-> ReplaceWindow(lines, oldLines, newCode, i)]

\* "Fuzzy line-by-line match": the first matching window is rewritten
FuzzyMatch(content, oldCode, newCode) ==
    LET lines == Split(content)
        oldLines == OldLines(oldCode)
        hits == WindowHits(lines, oldLines)
    IN  IF hits = {} THEN [found |-> FALSE, text |-> <<>>]
        ELSE LET i == CHOOSE h \in hits : \A g \in hits : h <= g
             IN  [found |-> TRUE, text |-> ReplaceWindow(lines, oldLines, newCode, i)]

\* a matcher without the direct-match phase
PerformSmartMatch_NoDirect(content, oldCode, newCode) == FuzzyMatch(content, oldCode, newCode)

\* _performSmartMatch: the new content, or null (found = FALSE)
PerformSmartMatch(content, oldCode, newCode) ==
    IF Includes(content, oldCode)
    THEN [found |-> TRUE, text |-> StrReplace(content, oldCode, newCode)]
    ELSE FuzzyMatch(content, oldCode, newCode)

\* a handler that takes a null from the matcher for "nothing to change"
SmartReplaceHandler_NoNullCheck(fs, a) ==
    LET safe == ResolveSandboxPath(a.file_path)
        rd == ReadFile(fs, safe.path)
        content == rd.data
        sm == PerformSmartMatch(content, a.old_code, a.new_code)
        write(newContent) ==
            LET w == WriteFile(fs, safe.path, newContent)
            IN  IF w.err # "" THEN Throw(fs, w.err)
                ELSE [fs |-> w.fs, res |-> [ok |-> TRUE, err |-> "", match_mode |-> a.match_mode]]
    IN  IF ~safe.ok THEN Throw(fs, safe.err)
        ELSE IF rd.err # "" THEN Throw(fs, rd.err)
        ELSE IF a.match_mode = "exact"
             THEN write(StrReplace(content, a.old_code, a.new_code))
        ELSE IF a.match_mode \in {"smart", "fuzzy"}
             THEN write(IF sm.found THEN sm.text ELSE content)
        ELSE Throw(fs, "invalid_mode")

\* smartReplace: the filesystem it leaves and what it returns or throws
SmartReplaceHandler(fs, a) ==
    LET safe == ResolveSandboxPath(a.file_path)
        rd == ReadFile(fs, safe.path)
        content == rd.data
        sm == PerformSmartMatch(content, a.old_code, a.new_code)
        write(newContent) ==
            LET w == WriteFile(fs, safe.path, newContent)
            IN  IF w.err # "" THEN Throw(fs, w.err)
                ELSE [fs |-> w.fs, res |-> [ok |-> TRUE, err |-> "", match_mode |-> a.match_mode]]
    IN  IF ~safe.ok THEN Throw(fs, safe.err)
        ELSE IF rd.err # "" THEN Throw(fs, rd.err)
        ELSE IF a.match_mode = "exact"
             THEN IF ~Includes(content, a.old_code) THEN Throw(fs, "exact_not_found")
                  ELSE write(StrReplace(content, a.old_code, a.new_code))
        ELSE IF a.match_mode \in {"smart", "fuzzy"}
             THEN IF ~sm.found THEN Throw(fs, "smart_not_found")
                  ELSE write(sm.text)
        ELSE Throw(fs, "invalid_mode")

(***************************************************************************)
(* delete_lines.                                                           *)
(***************************************************************************)
\* a deleteLines that takes start_line for a 0-based index
DeleteLinesHandler_ZeroBased(fs, a) ==
    LET safe == ResolveSandboxPath(a.file_path)
        rd == ReadFile(fs, safe.path)
        lines == Split(rd.data)
        kept == Splice(lines, a.start_line, a.end_line - a.start_line + 1, <<>>)
        w == WriteFile(fs, safe.path, Join(kept))
    IN  IF ~safe.ok THEN Throw(fs, safe.err)
        ELSE IF rd.err # "" THEN Throw(fs, rd.err)
        ELSE IF a.start_line < 1 \/ a.end_line > Len(lines) \/ a.start_line > a.end_line
             THEN Throw(fs, "invalid_range")
        ELSE IF w.err # "" THEN Throw(fs, w.err)
        ELSE [fs |-> w.fs,
              res |-> [ok |-> TRUE, err |-> "",
                       lines_deleted |-> a.end_line - a.start_line + 1,
                       new_total_lines |-> Len(kept)]]

\* deleteLines: the filesystem it leaves and what it returns or throws
DeleteLinesHandler(fs, a) ==
    LET safe == ResolveSandboxPath(a.file_path)
        rd == ReadFile(fs, safe.path)
        lines == Split(rd.data)
        kept == Splice(lines, a.start_line - 1, a.end_line - a.start_line + 1, <<>>)
        w == WriteFile(fs, safe.path, Join(kept))
    IN  IF ~safe.ok THEN Throw(fs, safe.err)
        ELSE IF rd.err # "" THEN Throw(fs, rd.err)
        ELSE IF a.start_line < 1 \/ a.end_line > Len(lines) \/ a.start_line > a.end_line
             THEN Throw(fs, "invalid_range")
        ELSE IF w.err # "" THEN Throw(fs, w.err)
        ELSE [fs |-> w.fs,
              res |-> [ok |-> TRUE, err |-> "",
                       lines_deleted |-> a.end_line - a.start_line + 1,
                       new_total_lines |-> Len(kept)]]

(***************************************************************************)
(* insert_lines and its position resolver.                                 *)
(* An optional field of the position object is a sequence of length 0      *)
(* (undefined) or 1; an absent pattern is the empty string, which the code *)
(* cannot tell from undefined (both are falsy).                            *)
(***************************************************************************)
\* the 0-based indexes of the lines that contain the pattern
LinesContaining(lines, pattern) == {i \in 0..(Len(lines) - 1) : Includes(lines[i + 1], pattern)}

\* a pattern branch that anchors on the first matching line whatever the occurrence
PatternPosition_FirstOccurrence(lines, position, match_occurrence) ==
    LET pattern == IF position.after_pattern # <<>> THEN position.after_pattern
                   ELSE position.before_pattern
        isAfter == position.after_pattern # <<>>
        hits == LinesContaining(lines, pattern)
    IN  IF hits = {} THEN [err |-> "pattern_not_found", insertIndex |-> -1, matchedLine |-> <<>>]
        ELSE LET i == CHOOSE h \in hits : \A g \in hits : h <= g
             IN  [err |-> "", insertIndex |-> IF isAfter THEN i + 1 ELSE i,
                  matchedLine |-> lines[i + 1]]

\* the loop over lines of the after_pattern / before_pattern branch
PatternPosition(lines, position, match_occurrence) ==
    LET pattern == IF position.after_pattern # <<>> THEN position.after_pattern
                   ELSE position.before_pattern
        isAfter == position.after_pattern # <<>>
        hits == LinesContaining(lines, pattern)
        sel == {i \in hits : Cardinality({k \in hits : k <= i}) = match_occurrence}
    IN  IF sel = {} THEN [err |-> "pattern_not_found", insertIndex |-> -1, matchedLine |-> <<>>]
        ELSE LET i == CHOOSE x \in sel : TRUE
             IN  [err |-> "", insertIndex |-> IF isAfter THEN i + 1 ELSE i,
                  matchedLine |-> lines[i + 1]]

\* a relative_to branch without the break: the last matching line is the anchor
RelativePosition_LastMatch(lines, relative_to) ==
    LET pattern == relative_to.pattern
        offset == relative_to.offset
        hits == LinesContaining(lines, pattern)
    IN  IF hits = {} THEN [err |-> "pattern_not_found", insertIndex |-> -1, matchedLine |-> <<>>]
        ELSE LET i == CHOOSE h \in hits : \A g \in hits : h >= g
             IN  [err |-> "",
                  insertIndex |-> i + offset + (IF offset >= 0 THEN 1 ELSE 0),
                  matchedLine |-> lines[i + 1]]

\* the loop over lines of the relative_to branch
RelativePosition(lines, relative_to) ==
    LET pattern == relative_to.pattern
        offset == relative_to.offset
        hits == LinesContaining(lines, pattern)
    IN  IF hits = {} THEN [err |-> "pattern_not_found", insertIndex |-> -1, matchedLine |-> <<>>]
        ELSE LET i == CHOOSE h \in hits : \A g \in hits : h <= g
             IN  [err |-> "",
                  insertIndex |-> i + offset + (IF offset >= 0 THEN 1 ELSE 0),
                  matchedLine |-> lines[i + 1]]

\* "Determine insertion position": the fields of position probed in sequence
ResolvePosition(lines, position, match_occurrence) ==
    IF position.line_number # <<>>
    THEN [err |-> "",
          insertIndex |-> IF position.insert_mode = "before"
                          THEN position.line_number[1] - 1 ELSE position.line_number[1],
          matchedLine |-> <<>>]
    ELSE IF position.after_pattern # <<>> \/ position.before_pattern # <<>>
    THEN PatternPosition(lines, position, match_occurrence)
    ELSE IF position.relative_to # <<>>
    THEN RelativePosition(lines, position.relative_to[1])
    ELSE [err |-> "", insertIndex |-> -1, matchedLine |-> <<>>]

\* "Apply indentation"
ProcessContent(content, preserve_indentation, matchedLine) ==
    IF preserve_indentation /\ matchedLine # <<>>
    THEN LET indent == LeadingWS(matchedLine)
             cl == Split(content)
         IN  Join([k \in 1..Len(cl) |->
                      IF k = 1 \/ Trim(cl[k]) = <<>> THEN cl[k] ELSE indent \o cl[k]])
    ELSE content

\* insertLines: the filesystem it leaves and what it returns or throws
InsertLinesHandler(fs, a) ==
    LET safe == ResolveSandboxPath(a.file_path)
        rd == ReadFile(fs, safe.path)
        created == rd.err = "ENOENT" /\ a.create_if_missing
        fs1 == IF created THEN MkdirParent(fs, safe.path) ELSE fs
        fileContent == IF rd.err = "" THEN rd.data ELSE <<>>
        lines == Split(fileContent)
        pos == ResolvePosition(lines, a.position, a.match_occurrence)
        processedContent == ProcessContent(a.content, a.preserve_indentation, pos.matchedLine)
        newLines == Splice(lines, pos.insertIndex, 0, Split(processedContent))
        w == WriteFile(fs1, safe.path, Join(newLines))
    IN  IF ~safe.ok THEN Throw(fs, safe.err)
        ELSE IF rd.err # "" /\ ~created THEN Throw(fs, rd.err)
        ELSE IF pos.err # "" THEN Throw(fs1, pos.err)
        ELSE IF w.err # "" THEN Throw(fs1, w.err)
        ELSE [fs |-> w.fs,
              res |-> [ok |-> TRUE, err |-> "",
                       inserted_at_line |-> pos.insertIndex + 1,
                       lines_inserted |-> Len(Split(processedContent))]]

(***************************************************************************)
(* append_prepend_content.                                                 *)
(***************************************************************************)
\* appendPrependContent: the filesystem it leaves and what it returns or throws
AppendPrependHandler(fs, a) ==
    LET safe == ResolveSandboxPath(a.file_path)
        rd == ReadFile(fs, safe.path)
        existing == IF rd.err = "" THEN rd.data ELSE <<>>
        newContent == IF a.position = "prepend" THEN a.content \o existing
                      ELSE existing \o a.content
        w == WriteFile(fs, safe.path, newContent)
    IN  IF ~safe.ok THEN Throw(fs, safe.err)
        ELSE IF rd.err # "" /\ (~a.create_if_missing \/ rd.err # "ENOENT") THEN Throw(fs, rd.err)
        ELSE IF w.err # "" THEN Throw(fs, w.err)
        ELSE [fs |-> w.fs,
              res |-> [ok |-> TRUE, err |-> "", bytes_added |-> Len(a.content)]]

(***************************************************************************)
(* The requests the model serves.                                          *)
(***************************************************************************)
Contents == StringsUpTo(FileChars, MaxContent)
OldCodes == StringsUpTo(FileChars, MaxOld)
ReplaceNewCodes == StringsUpTo(FileChars, MaxReplaceNew)
NewCodes == StringsUpTo(FileChars, MaxNew)
Patterns == StringsUpTo(PatternChars, MaxPattern)
UserPaths == StringsUpTo(PathChars, MaxPath)
LineNumbers == (-1)..MaxLineNo
Offsets == (-MaxOffset)..MaxOffset
Occurrences == 1..MaxOccurrence

ReplaceRequests ==
    [op : {"smart_replace"}, file_path : {TargetPath}, old_code : OldCodes,
     new_code : ReplaceNewCodes, match_mode : {"exact", "smart", "fuzzy"}]
    \cup
    [op : {"smart_replace"}, file_path : {TargetPath}, old_code : {<<"a">>},
     new_code : {<<"a">>}, match_mode : {"regex"}]
    \cup
    [op : {"smart_replace"}, file_path : {OutsidePath}, old_code : {<<"a">>},
     new_code : {<<"a">>}, match_mode : {"smart"}]

DeleteRequests ==
    [op : {"delete_lines"}, file_path : {TargetPath, OutsidePath},
     start_line : 0..MaxLineNo, end_line : 0..MaxLineNo]

LinePositions ==
    [line_number : {<<n>> : n \in LineNumbers}, insert_mode : {"before", "after"},
     after_pattern : {<<>>}, before_pattern : {<<>>}, relative_to : {<<>>}]

\* one of the two patterns, none, or both
PatternPositions ==
    {p \in [line_number : {<<>>}, insert_mode : {"after"},
            after_pattern : Patterns, before_pattern : Patterns, relative_to : {<<>>}] :
        p.after_pattern = <<>> \/ p.before_pattern = <<>>
            \/ (p.after_pattern = <<" ">> /\ p.before_pattern = <<"a">>)}

RelativePositions ==
    [line_number : {<<>>}, insert_mode : {"after"},
     after_pattern : {<<>>}, before_pattern : {<<>>},
     relative_to : {<<rt>> : rt \in [pattern : Patterns, offset : Offsets]}]

InsertRequests ==
    [op : {"insert_lines"}, file_path : {TargetPath}, content : NewCodes,
     position : LinePositions, match_occurrence : {1},
     create_if_missing : BOOLEAN, preserve_indentation : {TRUE}]
    \cup
    [op : {"insert_lines"}, file_path : {TargetPath}, content : NewCodes,
     position : PatternPositions \cup RelativePositions, match_occurrence : Occurrences,
     create_if_missing : BOOLEAN, preserve_indentation : BOOLEAN]
    \cup
    [op : {"insert_lines"}, file_path : {OutsidePath}, content : {<<"a">>},
     position : {p \in LinePositions : p.line_number = <<1>>}, match_occurrence : {1},
     create_if_missing : BOOLEAN, preserve_indentation : {TRUE}]

AppendRequests ==
    [op : {"append_prepend_content"}, file_path : {TargetPath, OutsidePath},
     content : NewCodes, position : {"append", "prepend"}, create_if_missing : BOOLEAN]

(***************************************************************************)
(* The state machine.                                                      *)
(***************************************************************************)
\* the filesystem is whatever the project directory holds when the server starts
Init ==
    /\ dirExists \in BOOLEAN
    /\ fstat \in {"ok", "absent", "denied"}
    /\ fdata \in Contents
    /\ fstat # "absent" => dirExists
    /\ fstat # "ok" => fdata = <<>>
    /\ pc = "idle"
    /\ req = NoReq
    /\ res = NoRes
    /\ pre = CurrentFs
    /\ tree = NoTree
    /\ tasks = NoTasks

InitPath ==
    /\ dirExists = TRUE
    /\ fstat = "absent"
    /\ fdata = <<>>
    /\ pc = "idle"
    /\ req = NoReq
    /\ res = NoRes
    /\ pre = CurrentFs
    /\ tree = NoTree
    /\ tasks = NoTasks

\* the server is idle and the target file is no longer than the model's bound
Accepts(longest) == pc = "idle" /\ (fstat = "ok" => Len(fdata) <= longest)

\* a handler runs to completion on request r with outcome o
Returns(r, o) ==
    /\ pc' = "done"
    /\ req' = r
    /\ res' = o.res
    /\ pre' = CurrentFs
    /\ dirExists' = o.fs.dir
    /\ fstat' = o.fs.stat
    /\ fdata' = o.fs.data
    /\ UNCHANGED <<tree, tasks>>

SmartReplace ==
    /\ Accepts(MaxContent)
    /\ \E r \in ReplaceRequests : Returns(r, SmartReplaceHandler(CurrentFs, r))

DeleteLines ==
    /\ Accepts(MaxContent)
    /\ \E r \in DeleteRequests : Returns(r, DeleteLinesHandler(CurrentFs, r))

InsertLines ==
    /\ Accepts(MaxContent)
    /\ \E r \in InsertRequests : Returns(r, InsertLinesHandler(CurrentFs, r))

AppendPrepend ==
    /\ Accepts(MaxContent)
    /\ \E r \in AppendRequests : Returns(r, AppendPrependHandler(CurrentFs, r))

\* a call of _resolveSandboxPath on its own
Resolve ==
    /\ pc = "idle"
    /\ \E p \in UserPaths :
           /\ req' = [op |-> "resolve", userPath |-> p]
           /\ res' = ResolveSandboxPath(p)
    /\ pc' = "done"
    /\ pre' = CurrentFs
    /\ UNCHANGED <<dirExists, fstat, fdata, tree, tasks>>

\* the response is sent; the server waits for the next request
Respond ==
    /\ pc = "done"
    /\ pc' = "idle"
    /\ req' = NoReq
    /\ res' = NoRes
    /\ pre' = CurrentFs
    /\ UNCHANGED <<dirExists, fstat, fdata, tree, tasks>>

Next == SmartReplace \/ DeleteLines \/ InsertLines \/ AppendPrepend \/ Respond

Spec == Init /\ [][Next]_vars

SpecReplace == Init /\ [][SmartReplace \/ Respond]_vars

SpecInsert == Init /\ [][InsertLines \/ Respond]_vars

SpecPath == InitPath /\ [][Resolve \/ Respond]_vars

(***************************************************************************)
(* Properties.                                                             *)
(***************************************************************************)
\* a handler for operation op has returned or thrown
Served(op) == pc = "done" /\ req.op = op

\* the handler's read of the target file succeeded
ReadOk == req.file_path = TargetPath /\ pre.stat = "ok"

\* the handler left the filesystem as it found it
FsUntouched == CurrentFs = pre

\* the handler left the target file as it found it
FileUntouched == fstat = pre.stat /\ fdata = pre.data

MutatingOps == {"smart_replace", "delete_lines", "insert_lines", "append_prepend_content"}

\* C1: whatever userPath is, _resolveSandboxPath either throws the security
\* error or returns a path that is the sandbox root or a descendant of it by
\* path components; it never returns a path outside the root.
C1_SandboxContainment ==
    (Served("resolve") /\ res.ok) => IsWithin(res.path, SANDBOX_DIR)

\* C2: a core operation that ends in an error has performed no filesystem
\* mutation at all: no file written, no file or directory created.
C2_FailsAtomically ==
    (pc = "done" /\ req.op \in MutatingOps /\ ~res.ok) => FsUntouched

\* C3: when a replace finds no match (exact mode: old_code is not a literal
\* substring; smart/fuzzy mode: _performSmartMatch returns null) the operation
\* returns the no-match error and the file is left untouched.
C3_NoMatchNoWrite ==
    (Served("smart_replace") /\ ReadOk) =>
        /\ (req.match_mode = "exact" /\ ~Includes(pre.data, req.old_code))
               => (~res.ok /\ res.err = "exact_not_found" /\ FsUntouched)
        /\ (req.match_mode \in {"smart", "fuzzy"}
              /\ ~PerformSmartMatch(pre.data, req.old_code, req.new_code).found)
               => (~res.ok /\ res.err = "smart_not_found" /\ FsUntouched)

\* a smart-mode replace found no match in a non-empty file
C3_Witness ==
    /\ Served("smart_replace") /\ ReadOk /\ req.match_mode = "smart"
    /\ pre.data # <<>> /\ req.old_code # <<>>
    /\ ~PerformSmartMatch(pre.data, req.old_code, req.new_code).found
    /\ ~res.ok

\* C4: exact-match priority: when old_code is a literal substring of the
\* content, smart and fuzzy mode write exactly the content exact mode writes.
C4_ExactMatchPriority ==
    (Served("smart_replace") /\ ReadOk /\ req.match_mode \in {"smart", "fuzzy"}
        /\ Includes(pre.data, req.old_code)) =>
        LET exact == SmartReplaceHandler(pre, [req EXCEPT !.match_mode = "exact"])
        IN  res.ok /\ exact.res.ok /\ CurrentFs = exact.fs

\* smart mode replaced a literal occurrence that sits on an indented line, where
\* the line-window phase would have rewritten the whole line
C4_Witness ==
    /\ Served("smart_replace") /\ ReadOk /\ req.match_mode = "smart"
    /\ req.old_code = <<"a">> /\ pre.data = <<" ", "a", " ">> /\ req.new_code = <<NL>>
    /\ res.ok /\ fdata = <<" ", NL, " ">>

\* the 0-based indexes at which a window of Len(ol) content lines equals ol
\* line by line once every line on both sides is trimmed
TrimmedWindows(lines, ol) ==
    {i \in 0..(Len(lines) - Len(ol)) :
        \A j \in 1..Len(ol) : Trim(lines[i + j]) = Trim(ol[j])}

\* the written content is the old one with exactly the first window matching ol
\* replaced by as many lines as new_code has; every other line is kept in place
FirstWindowReplaced(ol) ==
    LET lines == Split(pre.data)
        out == Split(fdata)
        n == Len(ol)
        k == Len(Split(req.new_code))
        w == TrimmedWindows(lines, ol)
    IN  /\ w # {}
        /\ LET i == CHOOSE h \in w : \A g \in w : h <= g
           IN  /\ Len(out) = Len(lines) - n + k
               /\ SubSeq(out, 1, i) = SubSeq(lines, 1, i)
               /\ Drop(out, i + k) = Drop(lines, i + n)

\* a smart or fuzzy replace whose old_code is not a literal substring of the file
FuzzyPhase ==
    /\ Served("smart_replace") /\ ReadOk /\ req.match_mode \in {"smart", "fuzzy"}
    /\ ~Includes(pre.data, req.old_code)

\* C5 as stated: the window replaced is the first one matching the lines of
\* old_code, and has as many lines as old_code has.
C5_Original == (FuzzyPhase /\ res.ok) => FirstWindowReplaced(Split(req.old_code))

\* C5: earliest-match determinism: when old_code is not a literal substring, a
\* successful smart-mode replace rewrites exactly the first (lowest index)
\* window of content lines that equals, line by line after trimming, the lines
\* of old_code with its surrounding whitespace trimmed off; all other lines
\* are unchanged and in order.
C5_EarliestWindow == (FuzzyPhase /\ res.ok) => FirstWindowReplaced(Split(Trim(req.old_code)))

\* two non-blank windows match and the replace succeeded, changing the file
C5_Witness ==
    /\ FuzzyPhase /\ res.ok /\ Trim(req.old_code) # <<>> /\ fdata # pre.data
    /\ Cardinality(TrimmedWindows(Split(pre.data), Split(Trim(req.old_code)))) >= 2

\* C6 as stated: no match is reported whenever no window of as many content
\* lines as old_code has lines equals old_code's lines after trimming each line.
C6_Original ==
    (FuzzyPhase /\ TrimmedWindows(Split(pre.data), Split(req.old_code)) = {})
        => (~res.ok /\ res.err = "smart_not_found")

\* C6: smart/fuzzy matching reports no match, and writes nothing, whenever
\* old_code is not a literal substring and no window of content lines equals,
\* line by line after trimming, the lines of old_code with its surrounding
\* whitespace trimmed off; a whitespace-only old_code, which trims to one empty
\* line, matches only where the content has a blank line.
C6_NoWindowNoMatch ==
    /\ (FuzzyPhase /\ TrimmedWindows(Split(pre.data), Split(Trim(req.old_code))) = {})
           => (~res.ok /\ res.err = "smart_not_found" /\ FsUntouched)
    /\ (FuzzyPhase /\ Trim(req.old_code) = <<>> /\ res.ok)
           => \E l \in 1..Len(Split(pre.data)) : Trim(Split(pre.data)[l]) = <<>>

\* a two-line old_code whose first line matches a content line but whose second
\* does not: no match is reported
C6_Witness ==
    /\ FuzzyPhase /\ ~res.ok /\ res.err = "smart_not_found"
    /\ Len(Split(pre.data)) >= 2
    /\ Len(Split(Trim(req.old_code))) >= 2
    /\ \E l \in 1..Len(Split(pre.data)) :
           Trim(Split(pre.data)[l]) = Trim(Split(Trim(req.old_code))[1])

\* C7: smart_replace with an empty old_code fails with an invalid-argument
\* error in every match mode and does not modify the file.
C7_EmptyOldRejected ==
    (Served("smart_replace") /\ ReadOk /\ req.old_code = <<>>) => (~res.ok /\ FsUntouched)

\* insert_lines got past its read: the file was read, or is missing and
\* create_if_missing makes it the empty file
InsertProceeds ==
    /\ Served("insert_lines") /\ req.file_path = TargetPath
    /\ (pre.stat = "ok" \/ (pre.stat = "absent" /\ req.create_if_missing))

\* the lines insert_lines works on
LinesBefore == IF pre.stat = "ok" THEN Split(pre.data) ELSE <<<<>>>>

\* the 0-based indexes of the lines before the insert that contain pattern p
AnchorLines(p) == {i \in 0..(Len(LinesBefore) - 1) : Includes(LinesBefore[i + 1], p)}

\* the file written holds the old lines with as many lines as the payload has
\* inserted at 0-based index idx: old lines 0..idx-1 before them, the rest after
SplicedAt(idx) ==
    LET out == Split(fdata)
        n == Len(Split(req.content))
    IN  /\ res.ok
        /\ Len(out) = Len(LinesBefore) + n
        /\ SubSeq(out, 1, idx) = SubSeq(LinesBefore, 1, idx)
        /\ Drop(out, idx + n) = Drop(LinesBefore, idx)

PatternVariant ==
    /\ req.position.line_number = <<>>
    /\ req.position.after_pattern # <<>> \/ req.position.before_pattern # <<>>

RelativeVariant ==
    /\ req.position.line_number = <<>>
    /\ req.position.after_pattern = <<>> /\ req.position.before_pattern = <<>>
    /\ req.position.relative_to # <<>>

\* C8: pattern occurrence selection: with match_occurrence = k >= 1 an
\* after_pattern/before_pattern insert anchors on the k-th line, top to bottom,
\* that contains the pattern (index matchIndex + 1 for after, matchIndex for
\* before); with fewer than k such lines it fails with pattern-not-found and
\* does not write the file.
C8_PatternOccurrence ==
    (InsertProceeds /\ PatternVariant) =>
        LET isAfter == req.position.after_pattern # <<>>
            pattern == IF isAfter THEN req.position.after_pattern
                       ELSE req.position.before_pattern
            k == req.match_occurrence
            hits == AnchorLines(pattern)
        IN  IF Cardinality(hits) < k
            THEN ~res.ok /\ res.err = "pattern_not_found" /\ FileUntouched
            ELSE LET m == CHOOSE x \in hits : Cardinality({h \in hits : h < x}) = k - 1
                     idx == IF isAfter THEN m + 1 ELSE m
                 IN  res.ok /\ res.inserted_at_line = idx + 1 /\ SplicedAt(idx)

\* an insert after the second line containing the pattern
C8_Witness ==
    /\ InsertProceeds /\ PatternVariant /\ req.position.after_pattern # <<>>
    /\ req.match_occurrence = 2 /\ res.ok /\ req.content # <<>>
    /\ Cardinality(AnchorLines(req.position.after_pattern)) >= 2

\* C9: for a relative_to position, offset 0 inserts immediately after the first
\* line containing the pattern and offset -1 inserts at the matched line itself:
\* the first inserted line takes its index and the matched line follows.
C9_RelativeOffsetMeaning ==
    (InsertProceeds /\ RelativeVariant
        /\ AnchorLines(req.position.relative_to[1].pattern) # {}) =>
        LET hits == AnchorLines(req.position.relative_to[1].pattern)
            i == CHOOSE h \in hits : \A g \in hits : h <= g
            offset == req.position.relative_to[1].offset
        IN  /\ offset = 0 => SplicedAt(i + 1)
            /\ offset = -1 => SplicedAt(i)

\* C10: for a relative_to position the anchor is the first line containing the
\* pattern whatever match_occurrence is, the insertion index is
\* matchIndex + offset + (1 if offset >= 0 else 0), and when no line contains
\* the pattern the operation fails with pattern-not-found and does not write.
C10_RelativeIndex ==
    (InsertProceeds /\ RelativeVariant) =>
        LET hits == AnchorLines(req.position.relative_to[1].pattern)
            offset == req.position.relative_to[1].offset
        IN  IF hits = {}
            THEN ~res.ok /\ res.err = "pattern_not_found" /\ FileUntouched
            ELSE LET i == CHOOSE h \in hits : \A g \in hits : h <= g
                     idx == i + offset + (IF offset >= 0 THEN 1 ELSE 0)
                 IN  /\ res.ok /\ res.inserted_at_line = idx + 1
                     /\ (0 <= idx /\ idx <= Len(LinesBefore)) => SplicedAt(idx)

\* two lines contain the pattern, match_occurrence is 2, and the insert went
\* in right after the first of them
C10_Witness ==
    /\ InsertProceeds /\ RelativeVariant /\ res.ok
    /\ req.match_occurrence = 2 /\ req.position.relative_to[1].offset = 0
    /\ req.position.relative_to[1].pattern # <<>> /\ req.content # <<>>
    /\ Cardinality(AnchorLines(req.position.relative_to[1].pattern)) >= 2

LineVariant == req.position.line_number # <<>>

\* the line number a line_number insert was given
LineNo == req.position.line_number[1]

\* C11: an insert_lines request that gives line_number is validated: when
\* line_number is below 0 or above lineCount + 1 the operation fails with an
\* out-of-range error and leaves the file unchanged, so it never splices at a
\* negative index or beyond the end.
C11_LineNumberValidated ==
    (InsertProceeds /\ LineVariant /\ (LineNo < 0 \/ LineNo > Len(LinesBefore) + 1))
        => (~res.ok /\ FsUntouched)

\* none of line_number, a non-empty after_pattern or before_pattern, relative_to
MalformedPosition ==
    /\ req.position.line_number = <<>>
    /\ req.position.after_pattern = <<>> /\ req.position.before_pattern = <<>>
    /\ req.position.relative_to = <<>>

\* C12: an insert_lines request whose position carries none of line_number, a
\* non-empty after_pattern or before_pattern, or relative_to fails with an
\* invalid-argument error and writes nothing.
C12_MalformedPositionRejected ==
    (InsertProceeds /\ MalformedPosition) => (~res.ok /\ FsUntouched)

\* the payload went into the file as it was given, at 0-based index idx
InsertedVerbatimAt(idx) ==
    /\ idx \in 0..Len(LinesBefore)
    /\ SplicedAt(idx)
    /\ SubSeq(Split(fdata), idx + 1, idx + Len(Split(req.content))) = Split(req.content)

\* C13: a line_number insert with 0 <= line_number <= lineCount puts the
\* payload at 0-based index line_number when insert_mode is after and at index
\* line_number - 1 when it is before, with no pattern search and the payload's
\* lines unchanged (no indentation applied).
C13_LineNumberIndex ==
    (InsertProceeds /\ LineVariant /\ LineNo \in 0..Len(LinesBefore))
        => InsertedVerbatimAt(IF req.position.insert_mode = "before"
                              THEN LineNo - 1 ELSE LineNo)

(***************************************************************************)
(* Replacing with a block of several lines.                                *)
(***************************************************************************)
BlockCodes == StringsUpTo(FileChars, MaxBlock)

BlockRequests ==
    [op : {"smart_replace"}, file_path : {TargetPath},
     old_code : StringsUpTo(FileChars, MaxBlockOld),
     new_code : BlockCodes, match_mode : {"smart", "fuzzy"}]

SmartReplaceBlock ==
    /\ Accepts(MaxContent)
    /\ \E r \in BlockRequests : Returns(r, SmartReplaceHandler(CurrentFs, r))

SpecReindent == Init /\ [][SmartReplaceBlock \/ Respond]_vars

\* the 0-based index of the window a fuzzy replace rewrites
FuzzyWindow ==
    LET w == TrimmedWindows(Split(pre.data), Split(Trim(req.old_code)))
    IN  CHOOSE h \in w : \A g \in w : h <= g

\* the leading whitespace of the first content line of the rewritten window
WindowIndent == LeadingWS(Split(pre.data)[FuzzyWindow + 1])

\* C14: reindentation on a fuzzy replace: the first line of new_code is written
\* untouched, every later non-blank line is stripped of its own leading and
\* trailing whitespace and prefixed with the leading whitespace of the first
\* matched content line, and blank lines pass through unchanged.
C14_ReindentOnReplace ==
    (FuzzyPhase /\ res.ok) =>
        LET nl == Split(req.new_code)
            out == Split(fdata)
        IN  \A k \in 1..Len(nl) :
                out[FuzzyWindow + k] =
                    IF k = 1 \/ Trim(nl[k]) = <<>> THEN nl[k]
                    ELSE WindowIndent \o Trim(nl[k])

\* a fuzzy replace under an indented line wrote a later line of new_code that
\* carried whitespace of its own
C14_Witness ==
    /\ FuzzyPhase /\ res.ok /\ WindowIndent # <<>>
    /\ \E k \in 2..Len(Split(req.new_code)) :
          LET l == Split(req.new_code)[k]
          IN  Trim(l) # <<>> /\ Trim(l) # l

(***************************************************************************)
(* Inserting a block of several lines at a pattern anchor.                 *)
(***************************************************************************)
InsertBlockRequests ==
    [op : {"insert_lines"}, file_path : {TargetPath}, content : BlockCodes,
     position : PatternPositions, match_occurrence : {1},
     create_if_missing : {FALSE}, preserve_indentation : BOOLEAN]

InsertBlock ==
    /\ Accepts(MaxContent)
    /\ \E r \in InsertBlockRequests : Returns(r, InsertLinesHandler(CurrentFs, r))

SpecIndent == Init /\ [][InsertBlock \/ Respond]_vars

\* the 0-based index of the anchor line of a pattern insert that succeeded
AnchorIndex ==
    IF req.position.after_pattern # <<>> THEN res.inserted_at_line - 2
    ELSE res.inserted_at_line - 1

\* C15: reindentation on insert: with a pattern anchor and preserve_indentation
\* true the first payload line is written untouched, every later non-blank
\* line is stripped of its own leading and trailing whitespace and prefixed
\* with the anchor line's leading whitespace, and blank lines pass through
\* unchanged: the lines written are those the fuzzy-replace path computes for
\* the same payload and indent.
C15_ReindentOnInsert ==
    (InsertProceeds /\ PatternVariant /\ req.preserve_indentation /\ res.ok) =>
        LET idx == res.inserted_at_line - 1
            n == Len(Split(req.content))
        IN  SubSeq(Split(fdata), idx + 1, idx + n)
                = ReindentNew(req.content, LeadingWS(LinesBefore[AnchorIndex + 1]))

(***************************************************************************)
(* Deleting a range of lines.                                              *)
(***************************************************************************)
SpecDelete == Init /\ [][DeleteLines \/ Respond]_vars

\* delete_lines read the target file
DeleteRead == Served("delete_lines") /\ ReadOk

\* the range is within the lines the file had
RangeValid ==
    1 <= req.start_line /\ req.start_line <= req.end_line
        /\ req.end_line <= Len(Split(pre.data))

\* C16: delete_lines(start, end) with 1 <= start <= end <= lineCount removes
\* exactly lines start..end (1-based, inclusive), keeps every other line
\* unchanged and in order, and reports lines_deleted = end - start + 1 and
\* new_total_lines = lineCount - lines_deleted; any other range fails with a
\* range error and writes nothing.
C16_DeleteRange ==
    DeleteRead =>
        LET lines == Split(pre.data)
        IN  IF RangeValid
            THEN /\ res.ok
                 /\ fdata = Join(SubSeq(lines, 1, req.start_line - 1)
                                    \o Drop(lines, req.end_line))
                 /\ res.lines_deleted = req.end_line - req.start_line + 1
                 /\ res.new_total_lines = Len(lines) - res.lines_deleted
            ELSE ~res.ok /\ res.err = "invalid_range" /\ FsUntouched

\* the middle line of a three-line file was deleted
C16_Witness ==
    /\ DeleteRead /\ res.ok /\ Len(Split(pre.data)) = 3
    /\ req.start_line = 2 /\ req.end_line = 2 /\ fdata # pre.data

(***************************************************************************)
(* Two requests in flight on the same file.  The handlers are async: a     *)
(* handler gives up control at "await fs.readFile" and again at "await     *)
(* fs.writeFile", and the other request's handler can run in between.      *)
(***************************************************************************)
RaceRequests ==
    {r \in DeleteRequests : r.file_path = TargetPath /\ r.start_line = r.end_line}
    \cup
    {r \in AppendRequests :
        r.file_path = TargetPath /\ r.position = "append" /\ ~r.create_if_missing}

\* the handler of request a run on filesystem fs
Handle(fs, a) ==
    IF a.op = "delete_lines" THEN DeleteLinesHandler(fs, a)
    ELSE AppendPrependHandler(fs, a)

\* a continuation that reads the file again before it writes
Continuation_ReadAgain(seen, now, a) == Handle(now, a)

\* the handler from the completion of its readFile on: it computes the new
\* content from what it read (seen) and writes it to the filesystem as it is now
Continuation(seen, now, a) ==
    LET o == Handle(seen, a)
        w == WriteFile(now, ResolveSandboxPath(a.file_path).path, o.fs.data)
    IN  IF ~o.res.ok THEN [fs |-> now, res |-> o.res]
        ELSE IF w.err # "" THEN Throw(now, w.err)
        ELSE [fs |-> w.fs, res |-> o.res]

\* task t takes a request and its readFile completes
TaskReads(t) ==
    /\ tasks[t].pc = "idle"
    /\ fstat = "ok" => Len(fdata) <= MaxContent
    /\ \E r \in RaceRequests :
          tasks' = [tasks EXCEPT ![t] = [IdleTask EXCEPT !.pc = "read", !.req = r,
                                                         !.seen = CurrentFs]]
    /\ UNCHANGED <<dirExists, fstat, fdata, pc, req, res, pre, tree>>

\* task t's handler resumes, its writeFile completes and it returns or throws
TaskWrites(t) ==
    /\ tasks[t].pc = "read"
    /\ \E o \in {Continuation(tasks[t].seen, CurrentFs, tasks[t].req)} :
           /\ dirExists' = o.fs.dir
           /\ fstat' = o.fs.stat
           /\ fdata' = o.fs.data
           /\ tasks' = [u \in TaskIds |->
                 IF u = t
                 THEN [tasks[t] EXCEPT !.pc = "done", !.prior = CurrentFs,
                                       !.wrote = o.fs.data, !.res = o.res]
                 ELSE IF tasks[u].pc = "read" /\ o.res.ok
                 THEN [tasks[u] EXCEPT !.stale = TRUE]
                 ELSE tasks[u]]
    /\ UNCHANGED <<pc, req, res, pre, tree>>

\* the first two requests the server receives, in flight together
SpecRace == Init /\ [][\E t \in TaskIds : TaskReads(t) \/ TaskWrites(t)]_vars

\* the content request a makes of content data
Edit(a, data) == Handle([dir |-> TRUE, stat |-> "ok", data |-> data], a).fs.data

\* task t mutated the file and reported success
Mutated(t) == tasks[t].pc = "done" /\ tasks[t].res.ok

\* C17: two mutation requests in flight on the same file are not serialised:
\* each writes its edit of the content it read, so a request whose read
\* preceded the other's write overwrites that write (the other edit is lost
\* although both report success), and a request that read after the other's
\* write wrote its edit on top of it (both edits present).
C17_LostUpdate ==
    \A t \in TaskIds :
        Mutated(t) =>
            /\ tasks[t].wrote = Edit(tasks[t].req, tasks[t].seen.data)
            /\ ~tasks[t].stale => tasks[t].wrote = Edit(tasks[t].req, tasks[t].prior.data)

\* both requests read the same original, both succeeded, and the file holds
\* the edit of one of them only
C17_Witness ==
    \E t \in TaskIds : \E u \in TaskIds \ {t} :
        /\ Mutated(t) /\ Mutated(u) /\ tasks[t].stale
        /\ tasks[t].seen = tasks[u].seen
        /\ tasks[u].wrote # tasks[u].seen.data
        /\ tasks[t].prior.data = tasks[u].wrote
        /\ fdata = Edit(tasks[t].req, tasks[t].seen.data)
        /\ fdata # Edit(tasks[t].req, tasks[u].wrote)

\* the requests did not overlap, both succeeded, and the file holds both edits
C17_WitnessSerial ==
    \E t \in TaskIds : \E u \in TaskIds \ {t} :
        /\ Mutated(t) /\ Mutated(u) /\ ~tasks[t].stale /\ ~tasks[u].stale
        /\ tasks[t].seen.data = tasks[u].wrote
        /\ tasks[u].wrote # tasks[u].seen.data
        /\ fdata = Edit(tasks[t].req, Edit(tasks[u].req, tasks[u].seen.data))
        /\ fdata # Edit(tasks[t].req, tasks[u].seen.data)

(***************************************************************************)
(* The text search engine: search_in_file and search_across_files.         *)
(* A regular expression is modelled by its atoms (a literal character or   *)
(* the wildcard "."), its ignoreCase flag and, the regex being global, the *)
(* lastIndex at which its next test starts.                                *)
(***************************************************************************)
SearchChars == {"a", "A", ".", "\n"}
SearchTextChars == {"a", "A", "."}
TreeChars == {"a", "\n"}

\* the character class of the escaping replace: [.*+?^${}()|[\]\\]
MetaChars == {".", "*", "+", "?", "^", "$", "{", "}", "(", ")", "|", "[", "]", "\\"}

\* a search text handed to the regex compiler as it is
EscapeRegExp_None(text) == text

\* search_text.replace(/[.*+?^${}()|[\]\\]/g, '\\$&')
EscapeRegExp(text) ==
    LET esc[i \in 0..Len(text)] ==
            IF i = 0 THEN <<>>
            ELSE esc[i - 1] \o (IF text[i] \in MetaChars THEN <<"\\", text[i]>>
                                ELSE <<text[i]>>)
    IN  esc[Len(text)]

\* the atoms of a pattern source: "\c" is the character c, "." is any
\* character but a line terminator, any other character is itself
RECURSIVE Compile(_)
Compile(source) ==
    IF source = <<>> THEN <<>>
    ELSE IF source[1] = "\\" /\ Len(source) >= 2
    THEN <<[any |-> FALSE, c |-> source[2]]>> \o Compile(Drop(source, 2))
    ELSE IF source[1] = "."
    THEN <<[any |-> TRUE, c |-> "."]>> \o Compile(Drop(source, 1))
    ELSE <<[any |-> FALSE, c |-> source[1]]>> \o Compile(Drop(source, 1))

\* new RegExp(use_regex ? search_text : escaped, case_sensitive ? 'g' : 'gi')
NewRegExp(search_text, use_regex, case_sensitive) ==
    [atoms |-> Compile(IF use_regex THEN search_text ELSE EscapeRegExp(search_text)),
     ignoreCase |-> ~case_sensitive]

\* the case folding of the i flag
Canonicalize(c) == IF c = "a" THEN "A" ELSE c

AtomMatches(atom, c, ignoreCase) ==
    IF atom.any THEN c \notin {"\n", "\r"}
    ELSE IF ignoreCase THEN Canonicalize(c) = Canonicalize(atom.c)
    ELSE c = atom.c

\* searchRegex.test(line) with the regex at lastIndex: the first match at or
\* after lastIndex; a global regex is left at the end of the match, or at 0
\* when there is none
RegexTest(re, line, lastIndex) ==
    LET n == Len(re.atoms)
        hits == {p \in lastIndex..(Len(line) - n) :
                    \A j \in 1..n : AtomMatches(re.atoms[j], line[p + j], re.ignoreCase)}
    IN  IF hits = {} THEN [found |-> FALSE, lastIndex |-> 0]
        ELSE [found |-> TRUE,
              lastIndex |-> n + CHOOSE p \in hits : \A q \in hits : p <= q]

\* a context window that starts one line late
ContextLoop_LateStart(lines, index, context_lines) ==
    LET start == Max(0, index - context_lines + 1)
        end == Min(Len(lines) - 1, index + context_lines)
    IN  [k \in 1..(end - start + 1) |->
            [line_number |-> start + k, content |-> lines[start + k],
             is_match |-> start + k - 1 = index]]

\* "for (let i = start; i <= end; i++) match.context.push(...)"
ContextLoop(lines, index, context_lines) ==
    LET start == Max(0, index - context_lines)
        end == Min(Len(lines) - 1, index + context_lines)
    IN  [k \in 1..(end - start + 1) |->
            [line_number |-> start + k, content |-> lines[start + k],
             is_match |-> start + k - 1 = index]]

\* lines.slice(start, end + 1).map((l, idx) => ...)
ContextSlice(lines, i, context_lines) ==
    LET start == Max(0, i - context_lines)
        end == Min(Len(lines) - 1, i + context_lines)
        slice == SubSeq(lines, start + 1, end + 1)
    IN  [idx \in 1..Len(slice) |->
            [line_number |-> start + (idx - 1) + 1, content |-> slice[idx],
             is_match |-> start + (idx - 1) = i]]

\* the match object of the line at 0-based index; context is <<>> when the
\* match carries no context property, <<window>> when it does
MatchObject(lines, index, context) ==
    [line_number |-> index + 1, content |-> lines[index + 1], context |-> context]

\* "searchRegex.lastIndex = 0" before the test of search_in_file
ResetBeforeTest(lastIndex) == 0

\* lines.forEach((line, index) => ...): the matches, the regex's lastIndex
\* afterwards, and (probes) the lastIndex each call of test started from
ForEachLine(lines, re, context_lines) ==
    LET scan[i \in 0..Len(lines)] ==
            IF i = 0 THEN [matches |-> <<>>, probes |-> <<>>, lastIndex |-> 0]
            ELSE LET s == scan[i - 1]
                     from == ResetBeforeTest(s.lastIndex)
                     t == RegexTest(re, lines[i], from)
                     context == IF context_lines > 0
                                THEN <<ContextLoop(lines, i - 1, context_lines)>>
                                ELSE <<>>
                 IN  [matches |-> IF t.found
                                  THEN Append(s.matches, MatchObject(lines, i - 1, context))
                                  ELSE s.matches,
                      probes |-> Append(s.probes, from),
                      lastIndex |-> t.lastIndex]
    IN  scan[Len(lines)]

\* searchInFile: the filesystem it leaves and what it returns or throws
SearchInFileHandler(fs, a) ==
    LET safe == ResolveSandboxPath(a.file_path)
        rd == ReadFile(fs, safe.path)
        lines == Split(rd.data)
        searchRegex == NewRegExp(a.search_text, a.use_regex, a.case_sensitive)
        scan == ForEachLine(lines, searchRegex, a.context_lines)
    IN  IF ~safe.ok THEN Throw(fs, safe.err)
        ELSE IF rd.err # "" THEN Throw(fs, rd.err)
        ELSE [fs |-> fs,
              res |-> [ok |-> TRUE, err |-> "", matches |-> scan.matches,
                       total_matches |-> Len(scan.matches), probes |-> scan.probes]]

\* glob(file_pattern, {cwd: SANDBOX_DIR, nodir: true}): the indexes in TreeNames
\* of the files the pattern lists, "*" those at the top of the project
\* directory and "../*" those beside it
Glob(tr, file_pattern) ==
    LET listed(n) ==
            /\ tr[n].stat # "absent"
            /\ IF file_pattern = <<"*">> THEN ~Includes(TreeNames[n], <<"/">>)
               ELSE IF file_pattern = <<".", ".", "/", "*">>
               THEN StartsWith(TreeNames[n], <<".", ".", "/">>)
               ELSE FALSE
    IN  SelectSeq([n \in 1..Len(TreeNames) |-> n], listed)

\* fs.readFile(path.join(SANDBOX_DIR, file), 'utf8') of the file with index n
ReadTree(tr, n) ==
    IF tr[n].stat = "ok" THEN [err |-> "", data |-> tr[n].data]
    ELSE IF tr[n].stat = "denied" THEN [err |-> "EACCES", data |-> <<>>]
    ELSE [err |-> "ENOENT", data |-> <<>>]

\* a loop body that leaves lastIndex as the test left it
ResetAfterTest_Skipped(lastIndex) == lastIndex

\* "searchRegex.lastIndex = 0" after the test of search_across_files
ResetAfterTest(lastIndex) == 0

\* "for (let i = 0; i < lines.length && fileMatches.length <
\* max_matches_per_file; i++)" on a regex that is at lastIndex
ScanFile(lines, re, lastIndex, max_matches_per_file, context_lines) ==
    LET scan[i \in 0..Len(lines)] ==
            IF i = 0 THEN [matches |-> <<>>, probes |-> <<>>, lastIndex |-> lastIndex]
            ELSE LET s == scan[i - 1]
                     t == RegexTest(re, lines[i], s.lastIndex)
                     context == IF context_lines > 0
                                THEN <<ContextSlice(lines, i - 1, context_lines)>>
                                ELSE <<>>
                 IN  IF Len(s.matches) >= max_matches_per_file THEN s
                     ELSE [matches |-> IF t.found
                                       THEN Append(s.matches, MatchObject(lines, i - 1, context))
                                       ELSE s.matches,
                           probes |-> Append(s.probes, s.lastIndex),
                           lastIndex |-> ResetAfterTest(t.lastIndex)]
    IN  scan[Len(lines)]

\* files.slice(0, max_files): a negative end counts from the end of the array
FilesToSearch(files, max_files) ==
    LET end == IF max_files < 0 THEN Max(Len(files) + max_files, 0)
               ELSE Min(max_files, Len(files))
    IN  SubSeq(files, 1, end)

\* searchAcrossFiles: what it returns; one regex serves every file
SearchAcrossFilesHandler(tr, a) ==
    LET filesToSearch == FilesToSearch(Glob(tr, a.file_pattern), a.max_files)
        searchRegex == NewRegExp(a.search_text, a.use_regex, a.case_sensitive)
        loop[k \in 0..Len(filesToSearch)] ==
            IF k = 0 THEN [results |-> <<>>, probes |-> <<>>, lastIndex |-> 0]
            ELSE LET s == loop[k - 1]
                     file == filesToSearch[k]
                     rd == ReadTree(tr, file)
                     scan == ScanFile(Split(rd.data), searchRegex, s.lastIndex,
                                      a.max_matches_per_file, a.context_lines)
                 IN  IF rd.err # "" THEN s
                     ELSE [results |-> IF Len(scan.matches) > 0
                                       THEN Append(s.results,
                                                   [file_path |-> TreeNames[file],
                                                    matches |-> scan.matches,
                                                    match_count |-> Len(scan.matches)])
                                       ELSE s.results,
                           probes |-> s.probes \o scan.probes,
                           lastIndex |-> scan.lastIndex]
        out == loop[Len(filesToSearch)]
    IN  [ok |-> TRUE, err |-> "", files_searched |-> Len(filesToSearch),
         files_with_matches |-> Len(out.results), results |-> out.results,
         probes |-> out.probes]

SearchContents == StringsUpTo(SearchChars, MaxContent)
SearchTexts == StringsUpTo(SearchTextChars, MaxSearch)
TreeContents == StringsUpTo(TreeChars, MaxTreeContent)

SearchRequests ==
    [op : {"search_in_file"}, file_path : {TargetPath}, search_text : SearchTexts,
     case_sensitive : BOOLEAN, use_regex : BOOLEAN, context_lines : 0..MaxContext]

AcrossRequests ==
    [op : {"search_across_files"}, search_text : SearchTexts, file_pattern : {<<"*">>},
     case_sensitive : BOOLEAN, use_regex : BOOLEAN, max_files : 1..Len(TreeNames),
     max_matches_per_file : 1..MaxMatches, context_lines : 0..MaxContext]

\* the states of a file at the top of the project directory
TreeFiles ==
    [stat : {"ok"}, data : TreeContents] \cup [stat : {"absent", "denied"}, data : {<<>>}]

\* the project directory holds the target file, or files at its top; there
\* is no file beside it
InitSearch ==
    /\ dirExists = TRUE
    /\ fstat \in {"ok", "absent"}
    /\ fdata \in SearchContents
    /\ fstat # "ok" => fdata = <<>>
    /\ tree \in [1..Len(TreeNames) -> TreeFiles]
    /\ \A n \in 1..Len(TreeNames) : Includes(TreeNames[n], <<"/">>) => tree[n].stat = "absent"
    /\ fstat = "ok" => tree = NoTree
    /\ pc = "idle"
    /\ req = NoReq
    /\ res = NoRes
    /\ pre = CurrentFs
    /\ tasks = NoTasks

SearchInFile ==
    /\ Accepts(MaxContent)
    /\ \E r \in SearchRequests : Returns(r, SearchInFileHandler(CurrentFs, r))

SearchAcrossFiles ==
    /\ Accepts(MaxContent)
    /\ \E r \in AcrossRequests :
          Returns(r, [fs |-> CurrentFs, res |-> SearchAcrossFilesHandler(tree, r)])

SpecSearch == InitSearch /\ [][SearchInFile \/ SearchAcrossFiles \/ Respond]_vars

\* a search handler has returned its matches
Searched(op) == Served(op) /\ res.ok

\* the regex of the request tests the line from position 0
LineMatches(line) ==
    RegexTest(NewRegExp(req.search_text, req.use_regex, req.case_sensitive), line, 0).found

\* the matches reported for lines are those of the first matching lines, up to
\* cap of them, each judged on its own
ReportedOnOwnMerit(lines, matches, cap) ==
    LET reported == {matches[k].line_number : k \in 1..Len(matches)}
    IN  /\ Len(matches) <= cap
        /\ \A i \in 1..Len(lines) :
              i \in reported <=>
                  /\ LineMatches(lines[i])
                  /\ Cardinality({j \in 1..(i - 1) : LineMatches(lines[j])}) < cap

\* the index in TreeNames of a file reported by search_across_files
TreeIndex(name) == CHOOSE n \in 1..Len(TreeNames) : TreeNames[n] = name

\* the indexes of the files search_across_files read
FilesRead ==
    {n \in 1..Len(TreeNames) :
        /\ tree[n].stat = "ok"
        /\ Cardinality({m \in 1..n : tree[m].stat # "absent"}) <= req.max_files}

\* the matches search_across_files reported for the file with index n
MatchesOf(n) ==
    LET e == {k \in 1..Len(res.results) : res.results[k].file_path = TreeNames[n]}
    IN  IF e = {} THEN <<>> ELSE res.results[CHOOSE k \in e : TRUE].matches

\* C18: the search carries no stale match position: the regex's lastIndex is 0
\* at every call of test, in search_in_file and in search_across_files (the
\* first line of a file that follows a file ended by the per-file cap or by a
\* read error included), so whether a line is reported depends only on the
\* line, the pattern and the flags.
C18_NoStalePosition ==
    /\ (Searched("search_in_file") \/ Searched("search_across_files"))
          => \A k \in 1..Len(res.probes) : res.probes[k] = 0
    /\ Searched("search_in_file")
          => ReportedOnOwnMerit(Split(pre.data), res.matches, Len(Split(pre.data)))
    /\ Searched("search_across_files")
          => \A n \in FilesRead :
                ReportedOnOwnMerit(Split(tree[n].data), MatchesOf(n),
                                   req.max_matches_per_file)

\* the first file's scan ended on a match that reached the per-file cap and
\* the first line of the second file was then tested and reported
C18_Witness ==
    /\ Searched("search_across_files") /\ Len(res.results) = 2
    /\ res.results[1].match_count = req.max_matches_per_file
    /\ res.results[2].matches[1].line_number = 1
    /\ req.search_text # <<>>

\* the file after an unreadable one was searched and its first line reported
C18_WitnessReadError ==
    /\ Searched("search_across_files") /\ tree[1].stat = "denied"
    /\ Len(res.results) = 1 /\ res.results[1].matches[1].line_number = 1

\* the i flag's folding applied to a string
FoldCase(s) == [k \in 1..Len(s) |-> Canonicalize(s[k])]

\* the line contains search_text as a literal substring, under the case flag
ContainsLiteral(line) ==
    IF req.case_sensitive THEN Includes(line, req.search_text)
    ELSE Includes(FoldCase(line), FoldCase(req.search_text))

\* C19: literal search: with use_regex false, search_in_file reports a line
\* exactly when it contains search_text as a literal substring (compared
\* case-insensitively when case_sensitive is false), whatever regex
\* metacharacters search_text is made of; matches come in ascending line
\* order with 1-based line numbers and total_matches is their number.
C19_LiteralSearch ==
    (Served("search_in_file") /\ ReadOk /\ ~req.use_regex) =>
        LET lines == Split(pre.data)
            hit == {i \in 1..Len(lines) : ContainsLiteral(lines[i])}
        IN  /\ res.ok
            /\ res.total_matches = Cardinality(hit)
            /\ Len(res.matches) = Cardinality(hit)
            /\ \A k \in 1..Len(res.matches) :
                  /\ res.matches[k].line_number \in hit
                  /\ res.matches[k].content = lines[res.matches[k].line_number]
                  /\ k > 1 => res.matches[k - 1].line_number < res.matches[k].line_number

\* a literal search for text with a "." reported a line and passed over a
\* line that is long enough to match were "." a wildcard
C19_Witness ==
    /\ Searched("search_in_file") /\ ~req.use_regex
    /\ Includes(req.search_text, <<".">>)
    /\ res.total_matches >= 1
    /\ \E i \in 1..Len(Split(pre.data)) :
          /\ Len(Split(pre.data)[i]) >= Len(req.search_text)
          /\ \A k \in 1..Len(res.matches) : res.matches[k].line_number # i

\* the match object m of a line of lines carries the clamped window of c lines
\* either side, or no context when c is 0
WindowOf(lines, m, c) ==
    LET i == m.line_number - 1
        lo == Max(0, i - c)
        hi == Min(Len(lines) - 1, i + c)
    IN  IF c > 0
        THEN /\ Len(m.context) = 1
             /\ Len(m.context[1]) = hi - lo + 1
             /\ \A k \in 1..Len(m.context[1]) :
                   /\ m.context[1][k].line_number = lo + k
                   /\ m.context[1][k].content = lines[lo + k]
                   /\ m.context[1][k].is_match <=> (lo + k - 1 = i)
        ELSE m.context = <<>>

\* C20: context window clamp: every match at 0-based line i found with
\* context_lines = c > 0 carries as context exactly the lines max(0, i - c)
\* to min(lineCount - 1, i + c), with 1-based line numbers, and exactly one
\* entry, that of line i, has is_match true; with c = 0 no context is
\* attached.  This holds in search_in_file and in search_across_files.
C20_ContextWindow ==
    /\ Searched("search_in_file")
          => \A k \in 1..Len(res.matches) :
                WindowOf(Split(pre.data), res.matches[k], req.context_lines)
    /\ Searched("search_across_files")
          => \A n \in FilesRead : \A k \in 1..Len(MatchesOf(n)) :
                WindowOf(Split(tree[n].data), MatchesOf(n)[k], req.context_lines)

\* a match on the first line carries a window cut short at the top that does
\* not reach the end of the file
C20_Witness ==
    /\ Searched("search_in_file") /\ req.context_lines > 0 /\ res.total_matches >= 1
    /\ res.matches[1].line_number = 1
    /\ Len(res.matches[1].context[1]) = req.context_lines + 1
    /\ Len(res.matches[1].context[1]) < Len(Split(pre.data))

\* a match in a file found by search_across_files carries a window cut short
\* at the end of the file
C20_WitnessAcross ==
    /\ Searched("search_across_files") /\ req.context_lines > 0 /\ Len(res.results) >= 1
    /\ \E k \in 1..Len(res.results[1].matches) :
          LET m == res.results[1].matches[k]
          IN  m.line_number >= 2 /\ Len(m.context[1]) = 2

(***************************************************************************)
(* The caps of search_across_files.                                        *)
(***************************************************************************)
CapRequests ==
    [op : {"search_across_files"}, search_text : SearchTexts, file_pattern : {<<"*">>},
     case_sensitive : {TRUE}, use_regex : {FALSE},
     max_files : (-1)..Len(TreeNames), max_matches_per_file : 0..MaxMatches,
     context_lines : {0}]

SearchCapped ==
    /\ Accepts(MaxContent)
    /\ \E r \in CapRequests :
          Returns(r, [fs |-> CurrentFs, res |-> SearchAcrossFilesHandler(tree, r)])

SpecCaps == InitSearch /\ [][SearchCapped \/ Respond]_vars

\* the indexes of the files the pattern "*" lists
Listed == {n \in 1..Len(TreeNames) : tree[n].stat # "absent"}

\* the indexes of the files search_across_files tried to read
Attempted ==
    {n \in Listed : Cardinality({m \in Listed : m <= n}) <= res.files_searched}

\* C21: search_across_files reads at most max_files files and returns at most
\* max_matches_per_file matches for any file, the first ones in line order; a
\* file whose read fails is skipped, appears nowhere in results, and neither
\* fails the operation nor stops the scan of the remaining files.
C21_SearchCaps ==
    Served("search_across_files") =>
        /\ res.ok
        /\ res.files_searched <= Max(req.max_files, 0)
        /\ \A k \in 1..Len(res.results) :
              /\ res.results[k].match_count <= req.max_matches_per_file
              /\ res.results[k].match_count = Len(res.results[k].matches)
        /\ \A n \in Attempted :
              IF tree[n].stat = "ok"
              THEN ReportedOnOwnMerit(Split(tree[n].data), MatchesOf(n),
                                      req.max_matches_per_file)
              ELSE MatchesOf(n) = <<>>

(***************************************************************************)
(* The paths a search reads.                                               *)
(***************************************************************************)
\* "../re": path.resolve takes it to a sibling of the project directory whose
\* name starts with the project directory's name
SiblingPath == <<".", ".", "/", "r", "e">>

PathSearchRequests ==
    [op : {"search_in_file"}, file_path : {TargetPath, OutsidePath, SiblingPath},
     search_text : SearchTexts, case_sensitive : {TRUE}, use_regex : {FALSE},
     context_lines : {0}]

PatternRequests ==
    [op : {"search_across_files"}, search_text : SearchTexts,
     file_pattern : {<<"*">>, <<".", ".", "/", "*">>},
     case_sensitive : {TRUE}, use_regex : {FALSE}, max_files : 1..Len(TreeNames),
     max_matches_per_file : 1..MaxMatches, context_lines : {0}]

\* there is a readable file beside the project directory
InitSearchPath ==
    /\ dirExists = TRUE
    /\ fstat = "absent"
    /\ fdata = <<>>
    /\ tree \in [1..Len(TreeNames) -> TreeFiles]
    /\ \A n \in 1..Len(TreeNames) : Includes(TreeNames[n], <<"/">>) => tree[n].stat = "ok"
    /\ pc = "idle"
    /\ req = NoReq
    /\ res = NoRes
    /\ pre = CurrentFs
    /\ tasks = NoTasks

SearchPath ==
    /\ Accepts(MaxContent)
    /\ \E r \in PathSearchRequests : Returns(r, SearchInFileHandler(CurrentFs, r))

SearchPattern ==
    /\ Accepts(MaxContent)
    /\ \E r \in PatternRequests :
          Returns(r, [fs |-> CurrentFs, res |-> SearchAcrossFilesHandler(tree, r)])

SpecSearchPath == InitSearchPath /\ [][SearchPath \/ SearchPattern \/ Respond]_vars

\* path.join(SANDBOX_DIR, file): the path search_across_files reads a file at
JoinedPath(file) == PathResolve(SANDBOX_DIR, file)

\* C22: every search stays inside the sandbox: the path search_in_file reads
\* has passed the resolver and is the sandbox root or below it, and every file
\* search_across_files reads and reports lies below the sandbox root, for
\* every file_path and every file_pattern, those with ".." included.
C22_SearchSandboxed ==
    /\ (Served("search_in_file") /\ res.err # "security")
          => IsWithin(ResolveSandboxPath(req.file_path).path, SANDBOX_DIR)
    /\ Searched("search_across_files")
          => \A k \in 1..Len(res.results) :
                IsWithin(JoinedPath(res.results[k].file_path), SANDBOX_DIR)

(***************************************************************************)
(* The call-tool handler: the switch over the tool name and the catch that *)
(* turns whatever the operation throws into the error envelope.  The JSON  *)
(* text of the response is modelled by the object it serialises.           *)
(***************************************************************************)
UnknownTool == "no_such_tool"

CallRequests ==
    {[op |-> "call_tool", name |-> a.op, arguments |-> a] :
        a \in DeleteRequests \cup AppendRequests}
    \cup
    {[op |-> "call_tool", name |-> UnknownTool, arguments |-> a] : a \in DeleteRequests}

\* "switch (name)": the operation run, or the throw of the default case
Switch(fs, name, args) ==
    IF name = "delete_lines" THEN DeleteLinesHandler(fs, args)
    ELSE IF name = "append_prepend_content" THEN AppendPrependHandler(fs, args)
    ELSE Throw(fs, "unknown_tool")

\* an envelope that names no tool
Envelope_Anonymous(name, message) == [error |-> TRUE, message |-> message]

\* the object serialised in the catch block
Envelope(name, message) == [error |-> TRUE, message |-> message, tool |-> name]

\* the object an operation returns: success: true and its own fields
ResultObject(r) == [success |-> TRUE, fields |-> r]

\* the call-tool handler: the filesystem it leaves and the response it
\* returns; thrown holds what the operation threw, if it threw
CallToolHandler(fs, a) ==
    LET o == Switch(fs, a.name, a.arguments)
    IN  [fs |-> o.fs,
         res |-> IF o.res.ok
                 THEN [ok |-> TRUE, err |-> "", text |-> ResultObject(o.res), thrown |-> <<>>]
                 ELSE [ok |-> TRUE, err |-> "", text |-> Envelope(a.name, o.res.err),
                       thrown |-> <<o.res.err>>]]

CallTool ==
    /\ Accepts(MaxContent)
    /\ \E r \in CallRequests : Returns(r, CallToolHandler(CurrentFs, r))

SpecDispatch == Init /\ [][CallTool \/ Respond]_vars

\* the response carries an object with error: true
IsEnvelope == "error" \in DOMAIN res.text /\ res.text.error = TRUE

\* C23 as stated: the envelope of a failed call is {error: true, message,
\* operation} with the error message and the operation's name.
C23_Original ==
    (Served("call_tool") /\ res.thrown # <<>>) =>
        /\ res.ok
        /\ DOMAIN res.text = {"error", "message", "operation"}
        /\ res.text.error = TRUE
        /\ res.text.message = res.thrown[1]
        /\ res.text.operation = req.name

\* C23: the dispatch layer never lets a failure escape: for every tool name,
\* known or unknown, and every error the invoked operation throws, the
\* call-tool handler returns a normal response whose text is the envelope
\* {error: true, message, tool} carrying the error message and the tool's
\* name, and a successful operation never yields an envelope with error true.
C23_ErrorEnvelope ==
    Served("call_tool") =>
        /\ res.ok
        /\ res.thrown # <<>> =>
              /\ DOMAIN res.text = {"error", "message", "tool"}
              /\ res.text.error = TRUE
              /\ res.text.message = res.thrown[1]
              /\ res.text.tool = req.name
        /\ res.thrown = <<>> => ~IsEnvelope

\* a call of an unknown tool was answered with the envelope
C23_Witness ==
    /\ Served("call_tool") /\ req.name = UnknownTool
    /\ IsEnvelope /\ res.text.message = "unknown_tool"

\* a call whose operation threw after reading the file was answered with the envelope
C23_WitnessThrown ==
    /\ Served("call_tool") /\ req.name = "delete_lines"
    /\ IsEnvelope /\ res.text.message = "invalid_range"

\* a relative userPath whose canonical form is the sandbox root or below it
LegitimatePath(p) ==
    /\ p = <<>> \/ p[1] # "/"
    /\ IsWithin(PathResolve(SANDBOX_DIR, p), SANDBOX_DIR)

\* C24: the resolver never rejects a legitimate path: it succeeds and returns
\* the root for a path that canonicalizes to the sandbox root itself ("." or
\* the empty string), and succeeds for every relative path whose canonical
\* form is a descendant of the root, ".." segments that do not leave the root
\* included.
C24_LegitimateAccepted ==
    (Served("resolve") /\ LegitimatePath(req.userPath)) =>
        /\ res.ok
        /\ res.path = PathResolve(SANDBOX_DIR, req.userPath)
        /\ PathSegments(res.path) = PathSegments(SANDBOX_DIR) => res.path = SANDBOX_DIR

\* a path that goes down and comes back up with ".." resolved to the root
C24_Witness ==
    /\ Served("resolve") /\ res.ok /\ res.path = SANDBOX_DIR
    /\ req.userPath # <<>> /\ req.userPath[1] \notin {".", "/"}
    /\ Includes(req.userPath, <<".", ".">>)

\* the empty path resolved to the root
C24_WitnessEmpty == Served("resolve") /\ req.userPath = <<>> /\ res.ok /\ res.path = SANDBOX_DIR

\* insert_lines or append_prepend_content was called on the target path
CreatingOp ==
    /\ pc = "done" /\ req.op \in {"insert_lines", "append_prepend_content"}
    /\ req.file_path = TargetPath

\* C25: a missing target file is an error unless create_if_missing is set:
\* insert_lines and append_prepend_content on a non-existent file fail and
\* create nothing when create_if_missing is false; when it is true they treat
\* the file as empty and create it with the new content; a read error other
\* than file-not-found fails the operation whatever the flag.
C25_CreateIfMissing ==
    CreatingOp =>
        /\ (pre.stat = "absent" /\ ~req.create_if_missing) => (~res.ok /\ FsUntouched)
        /\ (pre.stat = "absent" /\ req.create_if_missing) =>
              LET empty == [dir |-> TRUE, stat |-> "ok", data |-> <<>>]
                  o == IF req.op = "insert_lines" THEN InsertLinesHandler(empty, req)
                       ELSE AppendPrependHandler(empty, req)
              IN  res = o.res /\ (res.ok => (fstat = "ok" /\ fdata = o.fs.data))
        /\ pre.stat = "denied" => (~res.ok /\ FsUntouched)

(***************************************************************************)
(* execute_shell_command in restricted mode.  The command line is a string *)
(* over a small alphabet in which "ls" is a whitelisted program, "x" one   *)
(* that is not, and ";" the shell's command separator.                     *)
(***************************************************************************)
SHELL_MODE == "restricted"

ALLOWED_COMMANDS ==
    {<<"n", "p", "m">>, <<"y", "a", "r", "n">>, <<"p", "n", "p", "m">>,
     <<"n", "o", "d", "e">>, <<"p", "y", "t", "h", "o", "n">>,
     <<"p", "i", "p">>, <<"j", "a", "v", "a">>, <<"j", "a", "v", "a", "c">>,
     <<"m", "v", "n">>, <<"g", "r", "a", "d", "l", "e">>, <<"g", "o">>,
     <<"c", "a", "r", "g", "o">>, <<"r", "u", "s", "t", "c">>,
     <<"g", "c", "c">>, <<"g", "+", "+">>, <<"m", "a", "k", "e">>,
     <<"c", "m", "a", "k", "e">>, <<"g", "i", "t">>,
     <<"d", "o", "c", "k", "e", "r">>, <<"l", "s">>, <<"d", "i", "r">>,
     <<"p", "w", "d">>, <<"c", "a", "t">>, <<"t", "y", "p", "e">>,
     <<"e", "c", "h", "o">>, <<"t", "e", "s", "t">>, <<"j", "e", "s", "t">>,
     <<"m", "o", "c", "h", "a">>, <<"p", "y", "t", "e", "s", "t">>,
     <<"e", "s", "l", "i", "n", "t">>,
     <<"p", "r", "e", "t", "t", "i", "e", "r">>, <<"t", "s", "c">>,
     <<"w", "e", "b", "p", "a", "c", "k">>, <<"v", "i", "t", "e">>,
     <<"r", "o", "l", "l", "u", "p">>, <<"p", "a", "r", "c", "e", "l">>}

CommandChars == {"l", "s", "x", " ", ";"}

\* the text up to the first whitespace character: split(/\s+/)[0] of a
\* trimmed string
FirstWord(s) ==
    LET ws == {i \in 1..Len(s) : s[i] \in WhiteSpace}
    IN  IF ws = {} THEN s
        ELSE SubSeq(s, 1, (CHOOSE i \in ws : \A j \in ws : i <= j) - 1)

\* path.basename
Basename(p) ==
    LET segs == SelectSeq(SplitOn(p, "/"), LAMBDA g : g # <<>>)
    IN  IF segs = <<>> THEN <<>> ELSE segs[Len(segs)]

\* _validateShellCommand: does the command pass
ValidateShellCommand(command) ==
    LET baseCommand == FirstWord(Trim(command))
        commandName == Basename(baseCommand)
    IN  SHELL_MODE = "unsafe" \/ commandName \in ALLOWED_COMMANDS

\* the programs /bin/sh runs for a command line: the first word of each
\* command of the ";" list, or none when the line is not well formed (an
\* empty command before a ";")
ShellPrograms(command) ==
    LET cmds == SplitOn(command, ";")
        words == [k \in 1..Len(cmds) |-> FirstWord(Trim(cmds[k]))]
        wellFormed == \A k \in 1..(Len(cmds) - 1) : words[k] # <<>>
    IN  IF wellFormed THEN SelectSeq(words, LAMBDA w : w # <<>>) ELSE <<>>

\* executeShellCommand: what it returns or throws; executed holds the
\* programs exec ran
ExecuteShellCommandHandler(fs, a) ==
    LET cwd == ResolveSandboxPath(a.working_dir)
    IN  IF ~ValidateShellCommand(a.command)
        THEN [fs |-> fs, res |-> [ok |-> FALSE, err |-> "not_allowed", executed |-> <<>>]]
        ELSE IF ~cwd.ok
        THEN [fs |-> fs, res |-> [ok |-> FALSE, err |-> cwd.err, executed |-> <<>>]]
        ELSE [fs |-> fs,
              res |-> [ok |-> TRUE, err |-> "", executed |-> ShellPrograms(a.command)]]

ShellRequests ==
    [op : {"execute_shell_command"}, command : StringsUpTo(CommandChars, MaxCommand),
     working_dir : {<<".">>, OutsidePath}]

ExecuteShellCommand ==
    /\ Accepts(MaxContent)
    /\ \E r \in ShellRequests : Returns(r, ExecuteShellCommandHandler(CurrentFs, r))

SpecShell == InitPath /\ [][ExecuteShellCommand \/ Respond]_vars

\* C26: in restricted shell mode only whitelisted commands are executed: every
\* program the shell is asked to run, those after a ";" included, has its
\* name in ALLOWED_COMMANDS; otherwise the call fails before anything is
\* executed.
C26_OnlyWhitelisted ==
    Served("execute_shell_command") =>
        /\ \A k \in 1..Len(res.executed) : Basename(res.executed[k]) \in ALLOWED_COMMANDS
        /\ (\E k \in 1..Len(ShellPrograms(req.command)) :
                Basename(ShellPrograms(req.command)[k]) \notin ALLOWED_COMMANDS)
              => (~res.ok /\ res.executed = <<>>)

(***************************************************************************)
(* The line representation of a file: every line-oriented operation splits *)
(* the content it read on newline and joins the lines with newline before  *)
(* it writes.  Here the two are applied back to back to every content over *)
(* an alphabet with a carriage return.                                     *)
(***************************************************************************)
LineChars == {"a", "\r", "\n"}

InitLines ==
    /\ dirExists = TRUE
    /\ fstat = "ok"
    /\ fdata \in StringsUpTo(LineChars, MaxText)
    /\ pc = "idle"
    /\ req = NoReq
    /\ res = NoRes
    /\ pre = CurrentFs
    /\ tree = NoTree
    /\ tasks = NoTasks

SplitJoin ==
    /\ pc = "idle"
    /\ \E content \in {ReadFile(CurrentFs, TargetFile).data} :
          \E lines \in {Split(content)} :
             /\ req' = [op |-> "split_join", content |-> content]
             /\ res' = [ok |-> TRUE, err |-> "", lines |-> lines, joined |-> Join(lines)]
    /\ pc' = "done"
    /\ pre' = CurrentFs
    /\ UNCHANGED <<dirExists, fstat, fdata, tree, tasks>>

SpecLines == InitLines /\ [][SplitJoin \/ Respond]_vars

\* C27: splitting a content on newline and joining the lines with newline
\* gives the content back exactly, whether it is empty, ends in a newline or
\* not, or holds carriage returns.
C27_SplitJoinRoundTrip ==
    Served("split_join") => res.joined = req.content

\* a content with a carriage return and a final newline went through
C27_Witness ==
    /\ Served("split_join")
    /\ Len(res.lines) >= 2
    /\ res.lines[Len(res.lines)] = <<>>
    /\ Includes(req.content, <<"\r">>)

\* the empty content went through
C27_WitnessEmpty ==
    Served("split_join") /\ req.content = <<>> /\ res.lines = <<<<>>>>

\* the file written holds the lines before the insert with the n lines of the
\* processed payload put in as one block at 0-based index idx, every old line
\* unchanged and in order
PureInsertionAt(idx, n) ==
    LET out == Split(fdata)
    IN  /\ idx \in 0..Len(LinesBefore)
        /\ Len(out) = Len(LinesBefore) + n
        /\ SubSeq(out, 1, idx) = SubSeq(LinesBefore, 1, idx)
        /\ Drop(out, idx + n) = Drop(LinesBefore, idx)
        /\ \E k \in 0..Len(LinesBefore) :
              SubSeq(out, idx + 1, idx + n)
                 = Split(ProcessContent(req.content, req.preserve_indentation,
                                        IF k = 0 THEN <<>> ELSE LinesBefore[k]))

\* C28: insert_lines is a pure insertion: the lines written are the original
\* lines with the processed payload inserted as one block, the original lines
\* unchanged and in order, the line count grows by lines_inserted, and
\* inserted_at_line is the 1-based line where the first payload line sits,
\* for every position variant, line numbers beyond the end and relative
\* offsets giving a negative index included.
C28_PureInsertion ==
    (InsertProceeds /\ res.ok) =>
        PureInsertionAt(res.inserted_at_line - 1, res.lines_inserted)

(***************************************************************************)
(* Replacing with a new_code that holds the characters String.replace      *)
(* reads as replacement patterns.                                          *)
(***************************************************************************)
DollarChars == {"$", "&", "1", "a"}

DollarRequests ==
    [op : {"smart_replace"}, file_path : {TargetPath}, old_code : OldCodes,
     new_code : StringsUpTo(DollarChars, MaxDollarNew), match_mode : {"exact", "smart"}]

SmartReplaceDollar ==
    /\ Accepts(MaxContent)
    /\ \E r \in DollarRequests : Returns(r, SmartReplaceHandler(CurrentFs, r))

SpecDollar == Init /\ [][SmartReplaceDollar \/ Respond]_vars

\* C29: the replacement text is inserted literally: when old_code is a literal
\* substring of the content, the content written is the text before its first
\* occurrence, then new_code character for character, then the text after
\* that occurrence, for every new_code, "$&", "$1" and "$$" included; later
\* occurrences are left alone.
C29_LiteralReplacement ==
    (Served("smart_replace") /\ ReadOk /\ req.match_mode \in {"exact", "smart", "fuzzy"}
        /\ Includes(pre.data, req.old_code)) =>
        LET i == IndexOf(pre.data, req.old_code)
        IN  /\ res.ok
            /\ fdata = SubSeq(pre.data, 1, i - 1) \o req.new_code
                          \o Drop(pre.data, i + Len(req.old_code) - 1)

====
